---- MODULE Spec2Model ----
(***************************************************************************)
(* A model of the ray tracer camas/ray-tracing.                            *)
(*                                                                         *)
(* Numbers.  The program computes in f64.  The model computes exactly:     *)
(* finite values are rationals n/d, the IEEE-754 specials +inf, -inf and   *)
(* NaN are kept (the slab test of AABB::hit relies on them), and a root of *)
(* the sphere quadratic is kept as the surd (p + s*sqrt(r))/q.  Rounding   *)
(* is not modelled.  A literal 0 of the model is the f64 +0.0.             *)
(*                                                                         *)
(* Indices.  Vec3 components are indexed 0..2 in the source and 1..3 here. *)
(***************************************************************************)
EXTENDS Integers, Sequences, FiniteSets, TLC

VARIABLES
    \* --- geometry: one scene, one ray, the tree built over the scene ------
    scene,        \* World::hittables, a sequence of primitives
    ray,          \* the Ray handed to the hit tests
    tmin, tmax,   \* the (t_min, t_max) handed to the hit tests
    window,       \* <<t0, t1>> handed to BvhNode::make_tree
    tree,         \* the BvhNode make_tree returned ("unbuilt" before)
    gpc,          \* which geometry operation runs next
    worldRes,     \* what World::hit returned
    bvhRes,       \* what BvhNode::hit returned on the root
    boxRes,       \* what AABB::hit returned for the box under test
    primRes       \* what each primitive's own hit returned

geomVars == <<scene, ray, tmin, tmax, window, tree, gpc,
              worldRes, bvhRes, boxRes, primRes>>

VARIABLES
    \* --- one sample: Camera::get_ray, then ray_color on the ray ----------
    spc,          \* where the sample is: "get_ray", "lens", "time", "rc_enter",
                  \* "rc_scatter", "return", "done"
    lensDraw,     \* the last point random_in_unit_disk drew (in halves)
    depth,        \* ray_color's depth argument in the innermost call
    hitTests,     \* calls of world.hit made for this sample
    scatterCalls, \* calls of Material::scatter made for this sample
    hitMat,       \* the material of the record world.hit returned
    terminal      \* why the innermost call returned: "cap", "sky", "absorbed"

sampleVars == <<spc, lensDraw, depth, hitTests, scatterCalls, hitMat, terminal>>

VARIABLES
    \* --- raytrace_image -------------------------------------------------
    runs          \* the calls of raytrace_image under way, by number; each
                  \* is a record: its phase, the camera settings and world it
                  \* was given, the scanlines, the worker threads, the rows
                  \* collected, the thread-local generators, the image

renderVars == <<runs>>

VARIABLES
    \* --- one call of a function of the library --------------------------
    callArgs,     \* the arguments of the call
    callRet,      \* what it returned
    callpc        \* "call" before the call, "done" after, "idle" when unused

callVars == <<callArgs, callRet, callpc>>

vars == <<geomVars, sampleVars, renderVars, callVars>>

notGeom   == <<sampleVars, renderVars, callVars>>
notSample == <<geomVars, renderVars, callVars>>
notRender == <<geomVars, sampleVars, callVars>>
notCall   == <<geomVars, sampleVars, renderVars>>

CallIdle == callArgs = <<>> /\ callRet = <<>> /\ callpc = "idle"

-----------------------------------------------------------------------------
(* Integers *)

Abs(x) == IF x < 0 THEN -x ELSE x
Sgn(x) == IF x > 0 THEN 1 ELSE IF x < 0 THEN -1 ELSE 0

RECURSIVE Gcd(_, _)
Gcd(a, b) == IF b = 0 THEN a ELSE Gcd(b, a % b)

Lcm(a, b) == (a \div Gcd(a, b)) * b

Range(f) == {f[k] : k \in DOMAIN f}

-----------------------------------------------------------------------------
(* f64 values: k = "fin" (the rational n/d, d > 0, in lowest terms),       *)
(* "pinf", "ninf" or "nan".                                                *)

Fin(n, d) ==
    LET g == Gcd(Abs(n), Abs(d))
        s == IF d < 0 THEN -1 ELSE 1
    IN  [k |-> "fin", n |-> s * (n \div g), d |-> s * (d \div g)]
Int2F(n) == [k |-> "fin", n |-> n, d |-> 1]
PInf == [k |-> "pinf", n |-> 0, d |-> 1]
NInf == [k |-> "ninf", n |-> 0, d |-> 1]
NaN  == [k |-> "nan",  n |-> 0, d |-> 1]

IsFin(a) == a.k = "fin"

\* the sign of a non-NaN value
FSign(a) == CASE a.k = "pinf" -> 1 [] a.k = "ninf" -> -1 [] OTHER -> Sgn(a.n)

FNeg(a) ==
    CASE a.k = "pinf" -> NInf
      [] a.k = "ninf" -> PInf
      [] a.k = "nan"  -> NaN
      [] OTHER        -> Fin(-a.n, a.d)

FAdd(a, b) ==
    IF a.k = "nan" \/ b.k = "nan" THEN NaN
    ELSE IF IsFin(a) /\ IsFin(b) THEN Fin(a.n * b.d + b.n * a.d, a.d * b.d)
    ELSE IF IsFin(a) THEN b
    ELSE IF IsFin(b) THEN a
    ELSE IF a.k = b.k THEN a
    ELSE NaN                       \* inf - inf

FSub(a, b) == FAdd(a, FNeg(b))

FMul(a, b) ==
    IF a.k = "nan" \/ b.k = "nan" THEN NaN
    ELSE IF IsFin(a) /\ IsFin(b) THEN Fin(a.n * b.n, a.d * b.d)
    ELSE IF FSign(a) = 0 \/ FSign(b) = 0 THEN NaN      \* 0 * inf
    ELSE IF FSign(a) * FSign(b) > 0 THEN PInf ELSE NInf

\* a / b; x / 0 is +inf or -inf by the sign of x (the zero is +0.0), 0 / 0 is NaN
FDiv(a, b) ==
    IF a.k = "nan" \/ b.k = "nan" THEN NaN
    ELSE IF IsFin(b) /\ b.n = 0
         THEN (IF FSign(a) = 0 THEN NaN ELSE IF FSign(a) > 0 THEN PInf ELSE NInf)
    ELSE IF IsFin(b)
         THEN (IF IsFin(a) THEN Fin(a.n * b.d, a.d * b.n)
               ELSE IF FSign(a) * FSign(b) > 0 THEN PInf ELSE NInf)
    ELSE IF IsFin(a) THEN Int2F(0)
    ELSE NaN                       \* inf / inf

\* the f64 comparison operators: false as soon as one side is NaN
FLt(a, b) ==
    IF a.k = "nan" \/ b.k = "nan" THEN FALSE
    ELSE IF a.k = "pinf" \/ b.k = "ninf" THEN FALSE
    ELSE IF a.k = "ninf" \/ b.k = "pinf" THEN TRUE
    ELSE a.n * b.d < b.n * a.d
FGt(a, b) == FLt(b, a)
FLe(a, b) ==
    IF a.k = "nan" \/ b.k = "nan" THEN FALSE ELSE ~FLt(b, a)

\* f64::min and f64::max: when one side is NaN the other is returned
FMin(a, b) ==
    IF a.k = "nan" THEN b ELSE IF b.k = "nan" THEN a
    ELSE IF FLt(b, a) THEN b ELSE a
FMax(a, b) ==
    IF a.k = "nan" THEN b ELSE IF b.k = "nan" THEN a
    ELSE IF FLt(a, b) THEN b ELSE a

\* f64::partial_cmp: "none" when one side is NaN
PartialCmp(a, b) ==
    IF a.k = "nan" \/ b.k = "nan" THEN "none"
    ELSE IF FLt(a, b) THEN "less"
    ELSE IF FLt(b, a) THEN "greater"
    ELSE "equal"

-----------------------------------------------------------------------------
(* Roots of the sphere quadratic: the value (p + s*sqrt(r))/q with         *)
(* integers p, r >= 0, q > 0 and s in {-1, 1}.                             *)

Surd(p, s, r, q) == [p |-> p, s |-> s, r |-> r, q |-> q]

\* the sign of d*d*r - a*a for a >= 0, d > 0, r >= 0, without forming the
\* squares of the scaled values (the model's integers are 32 bits wide)
CmpScaledSqrt(a, d, r) ==
    LET m   == a \div d
        rem == a % d
    IN  IF m * m > r THEN -1
        ELSE IF (m + 1) * (m + 1) <= r THEN 1
        ELSE Sgn(d * d * (r - m * m) - (2 * m * d * rem + rem * rem))

\* the sign of x + s*d*sqrt(r), d > 0, r >= 0
SignSqrtScaled(x, s, r, d) ==
    LET pos ==      \* the sign of a + d*sqrt(r)
            [a \in {x, -x} |->
                IF a >= 0 THEN (IF a > 0 \/ r > 0 THEN 1 ELSE 0)
                ELSE CmpScaledSqrt(-a, d, r)]
    IN  IF s = 1 THEN pos[x] ELSE -pos[-x]

\* the sign of x + s*sqrt(y), y >= 0
SignSqrt(x, s, y) == SignSqrtScaled(x, s, y, 1)

\* the sign of x + s1*sqrt(y1) + s2*sqrt(y2), y1, y2 >= 0
SignSqrt2(x, s1, y1, s2, y2) ==
    LET su == IF s1 = s2 THEN (IF y1 + y2 > 0 THEN s1 ELSE 0)
              ELSE s1 * Sgn(y1 - y2)              \* sign of u = s1*sqrt(y1) + s2*sqrt(y2)
        sx == Sgn(x)
        \* the sign of x^2 - u^2, where u^2 = y1 + y2 + 2*s1*s2*sqrt(y1*y2)
        sd == SignSqrt(x * x - y1 - y2, -(s1 * s2), 4 * y1 * y2)
    IN  IF sx = 0 THEN su
        ELSE IF su = 0 \/ su = sx THEN sx
        ELSE IF sd > 0 THEN sx ELSE IF sd = 0 THEN 0 ELSE su

\* the sign of a - b for two roots
SurdCmp(a, b) ==
    LET g  == Gcd(a.q, b.q)
        qa == a.q \div g
        qb == b.q \div g
    IN  SignSqrt2(a.p * qb - b.p * qa, a.s, a.r * qb * qb, -b.s, b.r * qa * qa)

SurdLt(a, b) == SurdCmp(a, b) < 0
SurdEq(a, b) == SurdCmp(a, b) = 0

\* root > bound and root < bound for an f64 bound (t_min, t_max)
SurdGtF(t, b) ==
    CASE b.k = "nan"  -> FALSE
      [] b.k = "pinf" -> FALSE
      [] b.k = "ninf" -> TRUE
      [] OTHER        -> SignSqrtScaled(t.p * b.d - b.n * t.q, t.s, t.r, b.d) > 0
SurdLtF(t, b) ==
    CASE b.k = "nan"  -> FALSE
      [] b.k = "pinf" -> TRUE
      [] b.k = "ninf" -> FALSE
      [] OTHER        -> SignSqrtScaled(t.p * b.d - b.n * t.q, t.s, t.r, b.d) < 0

-----------------------------------------------------------------------------
(* Vec3 / Point3 with integer components *)

Dot(a, b) == a[1] * b[1] + a[2] * b[2] + a[3] * b[3]


-----------------------------------------------------------------------------
(* Vec3 / Point3 with f64 components *)

VecF(a) == [i \in 1..3 |-> Int2F(a[i])]

VAdd(a, b)  == [i \in 1..3 |-> FAdd(a[i], b[i])]
VSub(a, b)  == [i \in 1..3 |-> FSub(a[i], b[i])]
VMulF(a, k) == [i \in 1..3 |-> FMul(a[i], k)]
VDivF(a, k) == [i \in 1..3 |-> FDiv(a[i], k)]

VDot(a, b) == FAdd(FAdd(FMul(a[1], b[1]), FMul(a[2], b[2])), FMul(a[3], b[3]))

VCross(a, b) ==
    << FSub(FMul(a[2], b[3]), FMul(a[3], b[2])),
       FSub(FMul(a[3], b[1]), FMul(a[1], b[3])),
       FSub(FMul(a[1], b[2]), FMul(a[2], b[1])) >>

\* f64::sqrt, for the values whose root is a rational (the others do not
\* occur in the model)
ISqrt(n) == CHOOSE k \in 0..n : k * k = n
FSqrt(a) ==
    CASE a.k = "nan" \/ a.k = "ninf" -> NaN
      [] a.k = "pinf" -> PInf
      [] a.n < 0 -> NaN
      [] OTHER -> Fin(ISqrt(a.n), ISqrt(a.d))

VLengthSquared(a) == VDot(a, a)
VLength(a)        == FSqrt(VLengthSquared(a))
UnitVector(a)     == VDivF(a, VLength(a))

\* a variant that subtracts the projection once
Project(v, normal) == VSub(v, VMulF(normal, VDot(v, normal)))

\* Vec3::reflect: "v - 2. * v.dot(normal) * normal"
Reflect(v, normal) == VSub(v, VMulF(normal, FMul(Int2F(2), VDot(v, normal))))

-----------------------------------------------------------------------------
(* Hit records.  t is a root (a Surd); id names the primitive that was hit *)
(* (the record's material reference is that primitive's material).         *)

NoHit == [hit |-> FALSE]
Hit(t, id) == [hit |-> TRUE, t |-> t, id |-> id]

-----------------------------------------------------------------------------
(* Sphere and MovingSphere *)

\* The coefficients Sphere::hit and MovingSphere::hit compute, for
\* oc = oc_q / q (q > 0) given in integers: a as it is, half_b times q,
\* c and the discriminant times q^2.
Quadratic(oc_q, q, radius, r) ==
    LET a      == Dot(r.dir, r.dir)
        half_b == Dot(oc_q, r.dir)
        c      == Dot(oc_q, oc_q) - radius * radius * q * q
    IN  [a |-> a, half_b |-> half_b, c |-> c, discriminant |-> half_b * half_b - a * c]

\* (-half_b - root) / a and (-half_b + root) / a
SmallerRoot(e, q) == Surd(-e.half_b, -1, e.discriminant, e.a * q)
LargerRoot(e, q)  == Surd(-e.half_b,  1, e.discriminant, e.a * q)

\* a range test that lets the ends in
InRangeInclusive(t, t_min, t_max) == ~SurdLtF(t, t_min) /\ ~SurdGtF(t, t_max)

\* "t > t_min && t < t_max"
InRange(t, t_min, t_max) == SurdGtF(t, t_min) /\ SurdLtF(t, t_max)

\* The body shared by Sphere::hit and MovingSphere::hit: the discriminant
\* test, then the two range tests, the smaller root first.
QuadraticHit(oc_q, q, radius, r, t_min, t_max, id) ==
    LET e == Quadratic(oc_q, q, radius, r)
    IN  IF e.discriminant < 0 THEN NoHit
        ELSE IF e.a = 0 THEN NoHit      \* t is 0/0 = NaN: both range tests are false
        ELSE IF InRange(SmallerRoot(e, q), t_min, t_max) THEN Hit(SmallerRoot(e, q), id)
        ELSE IF InRange(LargerRoot(e, q), t_min, t_max) THEN Hit(LargerRoot(e, q), id)
        ELSE NoHit

\* ray.origin - center for a Sphere, in integers
SphereOc(s, r) == [i \in 1..3 |-> r.origin[i] - s.center[i]]

SphereHit(s, r, t_min, t_max) ==
    QuadraticHit(SphereOc(s, r), 1, s.radius, r, t_min, t_max, s.id)

SphereBox(s) ==
    [min |-> [i \in 1..3 |-> Int2F(s.center[i] - s.radius)],
     max |-> [i \in 1..3 |-> Int2F(s.center[i] + s.radius)]]

\* MovingSphere::center
MovingCenter(s, t) ==
    LET f == FDiv(Int2F(t - s.t0), Int2F(s.t1 - s.t0))
    IN  [i \in 1..3 |->
            FAdd(Int2F(s.center0[i]), FMul(f, Int2F(s.center1[i] - s.center0[i])))]

\* ray.origin - center(ray.time) for a MovingSphere with a finite centre:
\* [oc_q, q] with oc = oc_q / q
MovingOc(s, r) ==
    LET center == MovingCenter(s, r.time)
        q      == Lcm(Lcm(center[1].d, center[2].d), center[3].d)
    IN  [oc_q |-> [i \in 1..3 |-> q * r.origin[i] - center[i].n * (q \div center[i].d)],
         q    |-> q]

MovingCenterFinite(s, t) == \A i \in 1..3 : IsFin(MovingCenter(s, t)[i])

\* With a centre that is not finite (t0 = t1) the discriminant is NaN or the
\* root is NaN or infinite, "discriminant < 0." and both range tests are false,
\* and the function falls through to None.
MovingSphereHit(s, r, t_min, t_max) ==
    IF ~MovingCenterFinite(s, r.time) THEN NoHit
    ELSE QuadraticHit(MovingOc(s, r).oc_q, MovingOc(s, r).q, s.radius,
                      r, t_min, t_max, s.id)

\* a variant that keeps the first box
FirstBox(box_a, box_b) == box_a

\* AABB::surrounding_box
SurroundingBox(box_a, box_b) ==
    [min |-> [i \in 1..3 |-> FMin(box_a.min[i], box_b.min[i])],
     max |-> [i \in 1..3 |-> FMax(box_a.max[i], box_b.max[i])]]

MovingSphereBox(s, t0, t1) ==
    LET rad  == Int2F(s.radius)
        box0 == [min |-> [i \in 1..3 |-> FSub(MovingCenter(s, t0)[i], rad)],
                 max |-> [i \in 1..3 |-> FAdd(MovingCenter(s, t0)[i], rad)]]
        box1 == [min |-> [i \in 1..3 |-> FSub(MovingCenter(s, t1)[i], rad)],
                 max |-> [i \in 1..3 |-> FAdd(MovingCenter(s, t1)[i], rad)]]
    IN  SurroundingBox(box0, box1)

-----------------------------------------------------------------------------
(* AABB::hit *)

\* One pass of the loop body for axis i: the interval the body computes into
\* its own "let t_min" / "let t_max".
SlabInterval(box, r, t_min, t_max, i) ==
    LET inv_d == FDiv(Int2F(1), Int2F(r.dir[i]))
        a0    == FMul(FSub(box.min[i], Int2F(r.origin[i])), inv_d)
        a1    == FMul(FSub(box.max[i], Int2F(r.origin[i])), inv_d)
        swap  == FLt(inv_d, Int2F(0))
        t0    == IF swap THEN a1 ELSE a0
        t1    == IF swap THEN a0 ELSE a1
    IN  [lo |-> IF FGt(t0, t_min) THEN t0 ELSE t_min,
         hi |-> IF FLt(t1, t_max) THEN t1 ELSE t_max]

\* The intervals an iteration passes on to the next one.  The body's
\* "let t_min = ..." and "let t_max = ..." declare new locals that end with
\* the iteration, so the next iteration reads the function's parameters again.
CarriedInterval(slab, t_min, t_max) == [lo |-> t_min, hi |-> t_max]

RECURSIVE AABBHitFrom(_, _, _, _, _)
AABBHitFrom(box, r, t_min, t_max, i) ==
    IF i > 3 THEN TRUE
    ELSE LET slab == SlabInterval(box, r, t_min, t_max, i)
             next == CarriedInterval(slab, t_min, t_max)
         IN  IF FLt(slab.hi, slab.lo) THEN FALSE
             ELSE AABBHitFrom(box, r, next.lo, next.hi, i + 1)

AABBHit(box, r, t_min, t_max) == AABBHitFrom(box, r, t_min, t_max, 1)

-----------------------------------------------------------------------------
(* The Hittable trait: Sphere, MovingSphere and BvhNode *)

BoundingBox(h, t0, t1) ==
    CASE h.kind = "sphere" -> SphereBox(h)
      [] h.kind = "moving" -> MovingSphereBox(h, t0, t1)
      [] h.kind = "bvh"    -> h.bounding_box

\* the (Some, Some) arm of BvhNode::hit
CloserOf(left_rec, right_rec) ==
    IF SurdLt(left_rec.t, right_rec.t) THEN left_rec ELSE right_rec

\* whether BvhNode::hit returns None before looking at the children
Pruned(node, r, t_min, t_max) == ~AABBHit(node.bounding_box, r, t_min, t_max)

RECURSIVE HittableHit(_, _, _, _)
HittableHit(h, r, t_min, t_max) ==
    CASE h.kind = "sphere" -> SphereHit(h, r, t_min, t_max)
      [] h.kind = "moving" -> MovingSphereHit(h, r, t_min, t_max)
      [] h.kind = "bvh"    ->
            IF Pruned(h, r, t_min, t_max) THEN NoHit
            ELSE LET left_hit  == HittableHit(h.left, r, t_min, t_max)
                     right_hit == HittableHit(h.right, r, t_min, t_max)
                 IN  IF left_hit.hit /\ right_hit.hit THEN CloserOf(left_hit, right_hit)
                     ELSE IF left_hit.hit THEN left_hit
                     ELSE IF right_hit.hit THEN right_hit
                     ELSE NoHit

BvhNodeHit(node, r, t_min, t_max) == HittableHit(node, r, t_min, t_max)

\* World::hit: filter_map over the primitives in order, then min_by, which
\* keeps the first of several equal minima.  A record's t is never NaN (it
\* passed t > t_min), so partial_cmp(...).unwrap() does not panic.
\* a variant that keeps the first record
KeepFirst(recs, best) == best

RECURSIVE MinBy(_, _)
MinBy(recs, best) ==
    IF recs = <<>> THEN best
    ELSE MinBy(Tail(recs), IF SurdLt(Head(recs).t, best.t) THEN Head(recs) ELSE best)

WorldHit(hittables, r, t_min, t_max) ==
    LET all  == [k \in 1..Len(hittables) |-> HittableHit(hittables[k], r, t_min, t_max)]
        recs == SelectSeq(all, LAMBDA rec : rec.hit)
    IN  IF recs = <<>> THEN NoHit ELSE MinBy(Tail(recs), Head(recs))

-----------------------------------------------------------------------------
(* The HitRecord of a sphere: point, normal, front_face.  Their components *)
(* are values (x + y*sqrt(r))/q with integers x, y, r >= 0 and q > 0, r    *)
(* being the discriminant under the root t.                                *)

XVal(x, y, r, q) == [x |-> x, y |-> y, r |-> r, q |-> q]

\* the root t, and an f64 n/d, as such values
XOfSurd(t) == XVal(t.p, t.s, t.r, t.q)
XOfF(f, r) == XVal(f.n, 0, r, f.d)

\* f64 negation, addition, multiplication by and division by an integer-valued
\* f64 (the divisor is not zero)
XNeg(v)       == XVal(-v.x, -v.y, v.r, v.q)
XScale(v, n)  == XVal(v.x * n, v.y * n, v.r, v.q)
XAdd(a, b)    ==
    LET l == Lcm(a.q, b.q)
    IN  XVal(a.x * (l \div a.q) + b.x * (l \div b.q),
             a.y * (l \div a.q) + b.y * (l \div b.q), a.r, l)
XDivInt(v, n) == XVal(Sgn(n) * v.x, Sgn(n) * v.y, v.r, v.q * Abs(n))

\* the sign of the value: "v < 0." is XSgn(v) < 0
XSgn(v) ==
    IF v.y = 0 \/ v.r = 0 THEN Sgn(v.x)
    ELSE IF v.x = 0 \/ Sgn(v.x) = Sgn(v.y) THEN Sgn(v.y)
    ELSE Sgn(v.x) * Sgn(v.x * v.x - v.y * v.y * v.r)

\* ray.dir.dot(&normal)
XDot(dir, vec) ==
    XAdd(XAdd(XScale(vec[1], dir[1]), XScale(vec[2], dir[2])), XScale(vec[3], dir[3]))

\* "let point = ray.at(t);" and "point - center", for ray.origin - center
\* = oc_q / q
PointMinusCenter(oc_q, q, r, t) ==
    [i \in 1..3 |-> XAdd(XOfF(Fin(oc_q[i], q), t.r), XScale(XOfSurd(t), r.dir[i]))]

\* "let normal = (point - center) / self.radius;"
OutwardNormal(oc_q, q, radius, r, t) ==
    [i \in 1..3 |-> XDivInt(PointMinusCenter(oc_q, q, r, t)[i], radius)]

\* "let front_face = ray.dir.dot(&normal.conv()) < 0.;"
FrontFace(r, normal) == XSgn(XDot(r.dir, normal)) < 0

\* a variant that keeps the normal of a front hit and of a back hit alike
KeepNormal(front_face, normal) == normal

\* "let normal = if front_face { normal } else { -normal };"
FaceNormal(front_face, normal) ==
    IF front_face THEN normal ELSE [i \in 1..3 |-> XNeg(normal[i])]

\* the HitRecord Sphere::hit and MovingSphere::hit build around the root t
\* they return
RecordAround(rec, oc_q, q, radius, r) ==
    IF ~rec.hit THEN rec
    ELSE LET normal     == OutwardNormal(oc_q, q, radius, r, rec.t)
             front_face == FrontFace(r, normal)
         IN  [hit |-> TRUE, t |-> rec.t, id |-> rec.id,
              normal |-> FaceNormal(front_face, normal), front_face |-> front_face]

\* Sphere::hit and MovingSphere::hit with the whole record
HitRecordOf(h, r, t_min, t_max) ==
    CASE h.kind = "sphere" ->
            RecordAround(SphereHit(h, r, t_min, t_max), SphereOc(h, r), 1, h.radius, r)
      [] h.kind = "moving" ->
            IF ~MovingCenterFinite(h, r.time) THEN NoHit
            ELSE RecordAround(MovingSphereHit(h, r, t_min, t_max),
                              MovingOc(h, r).oc_q, MovingOc(h, r).q, h.radius, r)

-----------------------------------------------------------------------------
(* BvhNode::make_tree *)

PanicTree    == [kind |-> "panic"]
OverflowTree == [kind |-> "overflow"]
IsNode(t)    == t.kind = "bvh"

SortKey(h, t0, t1, dim) == BoundingBox(h, t0, t1).min[dim]

\* hittables.sort_by(...): a stable sort; partial_cmp(...).unwrap() panics when
\* a compared key is NaN, and with two or more elements every element is
\* compared.
SortPanics(hittables, t0, t1, dim) ==
    /\ Len(hittables) >= 2
    /\ \E k \in 1..Len(hittables) : SortKey(hittables[k], t0, t1, dim).k = "nan"

RECURSIVE InsertSorted(_, _, _, _, _)
InsertSorted(sorted, h, t0, t1, dim) ==
    IF sorted = <<>> THEN <<h>>
    ELSE IF FLt(SortKey(h, t0, t1, dim), SortKey(sorted[Len(sorted)], t0, t1, dim))
         THEN Append(InsertSorted(SubSeq(sorted, 1, Len(sorted) - 1), h, t0, t1, dim),
                     sorted[Len(sorted)])
         ELSE Append(sorted, h)

RECURSIVE SortByMin(_, _, _, _)
SortByMin(hittables, t0, t1, dim) ==
    IF hittables = <<>> THEN <<>>
    ELSE InsertSorted(SortByMin(SubSeq(hittables, 1, Len(hittables) - 1), t0, t1, dim),
                      hittables[Len(hittables)], t0, t1, dim)

\* a variant that takes a lone primitive as the tree
SingletonAsLeaf(hittables) == hittables[1]

\* "1 => panic!()"
OnSingleton(hittables) == PanicTree

\* a variant that rounds the middle up
SplitHigh(n) == (n + 1) \div 2

\* "let mid = hittables.len() / 2;": the upper part that split_off(mid)
\* removes starts after mid
SplitMid(n) == n \div 2

Node(left, right, t0, t1) ==
    [kind |-> "bvh", left |-> left, right |-> right,
     bounding_box |-> SurroundingBox(BoundingBox(left, t0, t1), BoundingBox(right, t0, t1))]

\* make_tree(hittables, t0, t1, rng): dims is the sequence of values
\* rng.gen_range(0, 3) returns, one per call, in call order.  The result is
\* [tree, dims]: the tree (or the panic) and the draws not yet used.
RECURSIVE MakeTreeRec(_, _, _, _)
MakeTreeRec(hittables, t0, t1, dims) ==
    LET dim    == Head(dims)
        rest   == Tail(dims)
        n      == Len(hittables)
        sorted == SortByMin(hittables, t0, t1, dim)
    IN  IF n = 0 THEN [tree |-> OverflowTree, dims |-> rest]   \* the `_` arm recurses on two empty lists, without end
        ELSE IF SortPanics(hittables, t0, t1, dim)
             THEN [tree |-> PanicTree, dims |-> rest]
        ELSE IF n = 1
             THEN [tree |-> OnSingleton(sorted), dims |-> rest]
        ELSE IF n = 2
             THEN [tree |-> Node(sorted[2], sorted[1], t0, t1), dims |-> rest]
        ELSE IF n = 3
             THEN LET right == MakeTreeRec(SubSeq(sorted, 1, 2), t0, t1, rest)
                  IN  IF ~IsNode(right.tree) THEN right
                      ELSE [tree |-> Node(sorted[3], right.tree, t0, t1), dims |-> right.dims]
        ELSE LET mid   == SplitMid(n)
                 left  == MakeTreeRec(SubSeq(sorted, mid + 1, n), t0, t1, rest)
                 right == MakeTreeRec(SubSeq(sorted, 1, mid), t0, t1, left.dims)
             IN  IF ~IsNode(left.tree) THEN left
                 ELSE IF ~IsNode(right.tree) THEN right
                 ELSE [tree |-> Node(left.tree, right.tree, t0, t1), dims |-> right.dims]

MakeTree(hittables, t0, t1, dims) == MakeTreeRec(hittables, t0, t1, dims).tree

\* how many times make_tree draws an axis for a list of n primitives
DrawsFor(n) == IF n <= 1 THEN 1 ELSE n - 1

-----------------------------------------------------------------------------
(* Inputs of the geometry checks *)

\* The primitives scenes are made of: a sphere in front of the origin, one
\* off the axis (its roots are irrational), one of negative radius (the
\* hollow-sphere idiom: Sphere::new takes any f64), and a moving sphere.
Primitives ==
    << [kind |-> "sphere", id |-> 1, center |-> <<0, 0, -4>>, radius |-> 1],
       [kind |-> "sphere", id |-> 2, center |-> <<2, 2, -2>>, radius |-> 1],
       [kind |-> "sphere", id |-> 3, center |-> <<0, 2, -2>>, radius |-> -1],
       [kind |-> "moving", id |-> 4, center0 |-> <<-2, 0, -2>>, center1 |-> <<-2, 4, -2>>,
        t0 |-> 0, t1 |-> 2, radius |-> 1] >>

\* the most primitives in a scene
MaxPrims == 3

\* a scene: primitives of the catalogue, in catalogue order
Scenes ==
    LET idx == {q \in SUBSET (1..Len(Primitives)) : Cardinality(q) <= MaxPrims}
        RECURSIVE Pick(_, _)
        Pick(q, k) == IF k > Len(Primitives) THEN <<>>
                      ELSE IF k \in q THEN <<Primitives[k]>> \o Pick(q, k + 1)
                      ELSE Pick(q, k + 1)
    IN  {Pick(q, 1) : q \in idx}

Origins == {<<0, 0, 0>>, <<0, 0, -4>>}
Dirs    == {<<x, y, z>> : x \in {-1, 0, 1}, y \in {-1, 0, 1}, z \in {-1, 0}}
Times   == {0, 1}
Rays    == {[origin |-> o, dir |-> d, time |-> t] : o \in Origins, d \in Dirs, t \in Times}

\* (t_min, t_max): the pair ray_color passes, and finite ranges whose ends
\* are roots of the first sphere
TRanges == {<<Fin(1, 1000), PInf>>, <<Int2F(0), Int2F(4)>>, <<Int2F(3), Int2F(5)>>}

\* the (t0, t1) handed to make_tree
Windows == {<<1, 2>>}

GeomIdle ==
    /\ scene = <<>> /\ ray = [origin |-> <<0, 0, 0>>, dir |-> <<0, 0, 0>>, time |-> 0]
    /\ tmin = Int2F(0) /\ tmax = Int2F(0) /\ window = <<0, 0>>
    /\ tree = [kind |-> "unbuilt"] /\ gpc = "idle"
    /\ worldRes = NoHit /\ bvhRes = NoHit /\ boxRes = FALSE /\ primRes = <<>>

GeomInit ==
    /\ scene \in Scenes
    /\ ray \in Rays
    /\ \E tr \in TRanges : tmin = tr[1] /\ tmax = tr[2]
    /\ window \in Windows
    /\ tree = [kind |-> "unbuilt"]
    /\ gpc = "world"
    /\ worldRes = NoHit /\ bvhRes = NoHit /\ boxRes = FALSE /\ primRes = <<>>

\* World::hit over the scene
GWorldHit ==
    /\ gpc = "world"
    /\ worldRes' = WorldHit(scene, ray, tmin, tmax)
    /\ gpc' = "prim"
    /\ UNCHANGED <<notGeom, scene, ray, tmin, tmax, window, tree, bvhRes, boxRes, primRes>>

\* each primitive's own hit
GPrimHit ==
    /\ gpc = "prim"
    /\ primRes' = [k \in 1..Len(scene) |-> HittableHit(scene[k], ray, tmin, tmax)]
    /\ gpc' = "build"
    /\ UNCHANGED <<notGeom, scene, ray, tmin, tmax, window, tree, worldRes, bvhRes, boxRes>>

\* BvhNode::make_tree over the scene's primitives, for every sequence of axis draws
GMakeTree ==
    /\ gpc = "build"
    /\ \E dims \in [1..DrawsFor(Len(scene)) -> 1..3] :
          tree' = MakeTree(scene, window[1], window[2], dims)
    /\ gpc' = IF IsNode(tree') THEN "box" ELSE "done"
    /\ UNCHANGED <<notGeom, scene, ray, tmin, tmax, window, worldRes, bvhRes, boxRes, primRes>>

\* AABB::hit on the root's box
GBoxHit ==
    /\ gpc = "box"
    /\ boxRes' = AABBHit(tree.bounding_box, ray, tmin, tmax)
    /\ gpc' = "bvh"
    /\ UNCHANGED <<notGeom, scene, ray, tmin, tmax, window, tree, worldRes, bvhRes, primRes>>

\* BvhNode::hit on the root
GBvhHit ==
    /\ gpc = "bvh"
    /\ bvhRes' = BvhNodeHit(tree, ray, tmin, tmax)
    /\ gpc' = "done"
    /\ UNCHANGED <<notGeom, scene, ray, tmin, tmax, window, tree, worldRes, boxRes, primRes>>

GeomNext == GWorldHit \/ GPrimHit \/ GMakeTree \/ GBoxHit \/ GBvhHit

-----------------------------------------------------------------------------
(* One sample of raytrace_image: camera.get_ray(u, v, ...) and then        *)
(* ray_color(&ray, &world, ..., 0).  What world.hit and scatter return     *)
(* depends on the scene and on the random draws; here every outcome the    *)
(* materials allow is possible at every bounce.                            *)

MAX_CHILD_RAY_DEPTH == 50

Materials == {"Lambertian", "Metal", "Dielectric", "Light"}

\* What uniform_unit (Uniform::from(-1.0..1.0)) can return, in halves.
UnitDraws == {-2, -1, 0, 1}

\* "tmp.length_squared() < 1." for a point given in halves
InUnitDisk(x, y) == x * x + y * y < 4

\* a cap test that lets one more call through
DepthCapReachedLate(d) == d > MAX_CHILD_RAY_DEPTH

\* "depth >= MAX_CHILD_RAY_DEPTH"
DepthCapReached(d) == d >= MAX_CHILD_RAY_DEPTH

\* whether scatter of material m can return Some, and whether it can return None
CanScatter(m) == m \in {"Lambertian", "Metal", "Dielectric"}
CanAbsorb(m)  == m \in {"Metal", "Light"}

SampleIdle ==
    /\ spc = "idle" /\ lensDraw = <<0, 0>> /\ depth = 0 /\ hitTests = 0
    /\ scatterCalls = 0 /\ hitMat = "none" /\ terminal = "none"

SampleInit ==
    /\ spc = "get_ray" /\ lensDraw = <<0, 0>> /\ depth = 0 /\ hitTests = 0
    /\ scatterCalls = 0 /\ hitMat = "none" /\ terminal = "none"

\* get_ray calls random_in_unit_disk
SGetRay ==
    /\ spc = "get_ray"
    /\ spc' = "lens"
    /\ UNCHANGED <<notSample, lensDraw, depth, hitTests, scatterCalls, hitMat, terminal>>

\* one pass of the loop of random_in_unit_disk that draws a point outside the disk
SLensReject ==
    /\ spc = "lens"
    /\ \E x \in UnitDraws, y \in UnitDraws :
          /\ ~InUnitDisk(x, y)
          /\ lensDraw' = <<x, y>>
    /\ UNCHANGED <<notSample, spc, depth, hitTests, scatterCalls, hitMat, terminal>>

\* the pass that draws a point inside the disk and returns it
SLensAccept ==
    /\ spc = "lens"
    /\ \E x \in UnitDraws, y \in UnitDraws :
          /\ InUnitDisk(x, y)
          /\ lensDraw' = <<x, y>>
    /\ spc' = "time"
    /\ UNCHANGED <<notSample, depth, hitTests, scatterCalls, hitMat, terminal>>

\* the rest of get_ray (the time draw, the Ray), and the call ray_color(.., 0)
SRayColor ==
    /\ spc = "time"
    /\ spc' = "rc_enter"
    /\ depth' = 0
    /\ UNCHANGED <<notSample, lensDraw, hitTests, scatterCalls, hitMat, terminal>>

\* ray_color: "if depth >= MAX_CHILD_RAY_DEPTH { return color!(); }"
RcCap ==
    /\ spc = "rc_enter"
    /\ DepthCapReached(depth)
    /\ terminal' = "cap"
    /\ spc' = "return"
    /\ UNCHANGED <<notSample, lensDraw, depth, hitTests, scatterCalls, hitMat>>

\* ray_color: world.hit(ray, 0.001, INFINITY) returns None: the sky gradient
RcMiss ==
    /\ spc = "rc_enter"
    /\ ~DepthCapReached(depth)
    /\ hitTests' = hitTests + 1
    /\ terminal' = "sky"
    /\ spc' = "return"
    /\ UNCHANGED <<notSample, lensDraw, depth, scatterCalls, hitMat>>

\* ray_color: world.hit returns a record, of any material
RcHit ==
    /\ spc = "rc_enter"
    /\ ~DepthCapReached(depth)
    /\ hitTests' = hitTests + 1
    /\ \E m \in Materials : hitMat' = m
    /\ spc' = "rc_scatter"
    /\ UNCHANGED <<notSample, lensDraw, depth, scatterCalls, terminal>>

\* rec.material.scatter(...) returns Some: the recursive call with depth + 1
RcScatter ==
    /\ spc = "rc_scatter"
    /\ CanScatter(hitMat)
    /\ scatterCalls' = scatterCalls + 1
    /\ depth' = depth + 1
    /\ hitMat' = "none"
    /\ spc' = "rc_enter"
    /\ UNCHANGED <<notSample, lensDraw, hitTests, terminal>>

\* rec.material.scatter(...) returns None: "return color!();"
RcAbsorb ==
    /\ spc = "rc_scatter"
    /\ CanAbsorb(hitMat)
    /\ scatterCalls' = scatterCalls + 1
    /\ terminal' = "absorbed"
    /\ spc' = "return"
    /\ UNCHANGED <<notSample, lensDraw, depth, hitTests, hitMat>>

\* the innermost call has returned; the calls above it return in turn
RcReturn ==
    /\ spc = "return"
    /\ spc' = "done"
    /\ UNCHANGED <<notSample, lensDraw, depth, hitTests, scatterCalls, hitMat, terminal>>

RayColorNext == RcCap \/ RcMiss \/ RcHit \/ RcScatter \/ RcAbsorb \/ RcReturn

SampleNext == SGetRay \/ SLensReject \/ SLensAccept \/ SRayColor \/ RayColorNext

-----------------------------------------------------------------------------
(* raytrace_image.  Camera::new runs first; then rayon gives each scanline  *)
(* j of 0..image_height to some thread of its pool, in any order, and a     *)
(* thread works on one scanline at a time, pixel by pixel; the rows are     *)
(* collected by scanline index and the collected vector is reversed.        *)

image_width  == 2
image_height == 2

\* the threads of rayon's pool
NumWorkers == 2

samples_per_pixel == 100

Workers   == 1..NumWorkers
Scanlines == 0..(image_height - 1)

\* The shutter interval of the settings handed in: that of the cover scenes
\* (t0: 0, t1: 1) and that of CameraSettings::default() (both 0).
ShutterSettings == {[t0 |-> 0, t1 |-> 1], [t0 |-> 0, t1 |-> 0]}

\* rand's Uniform::new asserts low < high
UniformNewPanics(low, high) == ~(low < high)

\* Camera::new: "time_dist: Uniform::from(settings.t0..settings.t1)"
CameraNewPanics(settings) == UniformNewPanics(settings.t0, settings.t1)

\* one generator for the whole process
SharedRng(w) == 1

\* rand::thread_rng(): the handle of the generator local to the calling thread
ThreadRng(w) == w

\* a hit test that consumes the primitives
WorldAfterHitDrained(hittables) == <<>>

\* World::hit, Material::scatter and Texture::value take &self and nothing
\* in them has interior mutability: what they leave of the world
WorldAfterHit(hittables) == hittables

\* What ray_color returns for a sample whose camera ray goes through pixel
\* (i, j); the number stands for the Color.
RayColorOf(i, j) == 1 + i + image_width * j

\* "(0..samples_per_pixel).map(|_| ...).sum::<Color>()" over the samples
\* numbered lo .. hi - 1 of pixel (i, j).  (The sum is split in halves to
\* keep the evaluation shallow.)
RECURSIVE SampleSum(_, _, _, _)
SampleSum(i, j, lo, hi) ==
    IF lo >= hi THEN 0
    ELSE IF hi = lo + 1 THEN RayColorOf(i, j)
    ELSE SampleSum(i, j, lo, (lo + hi) \div 2) + SampleSum(i, j, (lo + hi) \div 2, hi)

\* the samples added into that sum, each named <<i, j, k>> after the pixel
\* its camera ray was generated for ("u = (i + ..) / ..", "v = (j + ..) / ..")
\* and its number
RECURSIVE SamplesOf(_, _, _, _)
SamplesOf(i, j, lo, hi) ==
    IF lo >= hi THEN {}
    ELSE IF hi = lo + 1 THEN {<<i, j, lo>>}
    ELSE SamplesOf(i, j, lo, (lo + hi) \div 2) \cup SamplesOf(i, j, (lo + hi) \div 2, hi)

\* a pixel that is the sum of its samples, not divided
PixelColorUndivided(i, j, g, pos) ==
    [color |-> Int2F(SampleSum(i, j, 0, samples_per_pixel)),
     from  |-> SamplesOf(i, j, 0, samples_per_pixel),
     draws |-> <<g, pos>>]

\* the pixel (i, j) as computed with generator g standing at position pos:
\* ".sum::<Color>() / samples_per_pixel as f64"
PixelColor(i, j, g, pos) ==
    [color |-> FDiv(Int2F(SampleSum(i, j, 0, samples_per_pixel)), Int2F(samples_per_pixel)),
     from  |-> SamplesOf(i, j, 0, samples_per_pixel),
     draws |-> <<g, pos>>]

\* the Vec the parallel iterator collects: the rows by scanline index
Collect(rows) == [k \in 1..image_height |-> rows[k - 1]]

\* the collected vector as it is, not reversed
KeepOrder(data) == data

\* "data.into_iter().rev().collect()"
Rev(data) == [k \in 1..Len(data) |-> data[Len(data) + 1 - k]]

IdleWorker == [line |-> -1, col |-> 0, row |-> <<>>, rng |-> 0]

\* a call of raytrace_image(world, settings, image_width, image_height)
RenderStart(world, settings) ==
    [phase    |-> "new",
     settings |-> settings,
     world0   |-> world,
     world    |-> world,
     line     |-> [j \in Scanlines |-> "todo"],
     worker   |-> [w \in Workers |-> IdleWorker],
     rows     |-> [j \in Scanlines |-> <<>>],
     finished |-> <<>>,
     rngPos   |-> [g \in Workers |-> 0],
     rngUsers |-> [g \in Workers |-> {}],
     image    |-> <<>>]

\* the worlds rendered: an empty one, and two of spheres
RenderWorlds == {<<>>, <<Primitives[1]>>, <<Primitives[1], Primitives[2]>>}

RenderIdle == runs = <<>>

\* one call
RenderInit ==
    /\ GeomIdle /\ SampleIdle /\ CallIdle
    /\ \E world \in RenderWorlds, settings \in ShutterSettings :
          runs = [a \in {1} |-> RenderStart(world, settings)]

\* two calls with the same arguments, whose threads' generators start in
\* the same states
TwoRunInit ==
    /\ GeomIdle /\ SampleIdle /\ CallIdle
    /\ \E world \in RenderWorlds, settings \in ShutterSettings :
          runs = [a \in {1, 2} |-> RenderStart(world, settings)]

\* Camera::new returns
RCameraNew ==
    \E a \in DOMAIN runs :
        /\ runs[a].phase = "new"
        /\ ~CameraNewPanics(runs[a].settings)
        /\ runs' = [runs EXCEPT ![a].phase = "render"]
        /\ UNCHANGED notRender

\* Camera::new panics, and raytrace_image with it
RCameraPanic ==
    \E a \in DOMAIN runs :
        /\ runs[a].phase = "new"
        /\ CameraNewPanics(runs[a].settings)
        /\ runs' = [runs EXCEPT ![a].phase = "panicked"]
        /\ UNCHANGED notRender

\* thread w takes scanline j: "let mut rng = rand::thread_rng();"
RStartLine ==
    \E a \in DOMAIN runs, w \in Workers, j \in Scanlines :
        /\ runs[a].phase = "render"
        /\ runs[a].worker[w].line = -1
        /\ runs[a].line[j] = "todo"
        /\ runs' = [runs EXCEPT
                      ![a].line[j] = "running",
                      ![a].worker[w] = [line |-> j, col |-> 0, row |-> <<>>,
                                        rng |-> ThreadRng(w)]]
        /\ UNCHANGED notRender

\* thread w computes the next pixel of its scanline: all its samples, each
\* drawing from the handle rng and reading the world
RPixel ==
    \E a \in DOMAIN runs, w \in Workers :
        LET wk == runs[a].worker[w]
            g  == wk.rng
        IN  /\ runs[a].phase = "render"
            /\ wk.line # -1
            /\ wk.col < image_width
            /\ runs' = [runs EXCEPT
                          ![a].worker[w].col = wk.col + 1,
                          ![a].worker[w].row =
                              Append(wk.row, PixelColor(wk.col, wk.line, g, runs[a].rngPos[g])),
                          ![a].rngPos[g] = @ + 1,
                          ![a].rngUsers[g] = @ \cup {w},
                          ![a].world = WorldAfterHit(@)]
            /\ UNCHANGED notRender

\* thread w has the whole row: the closure returns it, for index j
RFinishLine ==
    \E a \in DOMAIN runs, w \in Workers :
        LET wk == runs[a].worker[w]
        IN  /\ runs[a].phase = "render"
            /\ wk.line # -1
            /\ wk.col >= image_width
            /\ runs' = [runs EXCEPT
                          ![a].rows[wk.line] = wk.row,
                          ![a].line[wk.line] = "done",
                          ![a].finished = Append(@, wk.line),
                          ![a].worker[w] = IdleWorker]
            /\ UNCHANGED notRender

\* every scanline is done: collect, reverse, return the Image
RReturn ==
    \E a \in DOMAIN runs :
        /\ runs[a].phase = "render"
        /\ \A j \in Scanlines : runs[a].line[j] = "done"
        /\ runs' = [runs EXCEPT
                      ![a].image = Rev(Collect(runs[a].rows)),
                      ![a].phase = "returned"]
        /\ UNCHANGED notRender

RenderNext == RCameraNew \/ RCameraPanic \/ RStartLine \/ RPixel \/ RFinishLine \/ RReturn

-----------------------------------------------------------------------------
(* Single calls of functions of the library: the arguments are chosen by   *)
(* Init, and one action makes the call.                                    *)

\* The spheres whose hit records are looked at: each Sphere and MovingSphere
\* of the geometry inputs (radius 1 and radius -1, none with radius 0, for
\* which the normal is 0/0), under rays that start outside and inside them.
RecordRays ==
    {[origin |-> o, dir |-> d, time |-> t] :
        o \in Origins \cup {<<0, 2, -2>>, <<-2, 0, -2>>}, d \in Dirs, t \in Times}

RecordCalls ==
    {[h |-> Primitives[k], ray |-> r, t_min |-> w[1], t_max |-> w[2]] :
        k \in DOMAIN Primitives, r \in RecordRays, w \in TRanges}

RecordInit ==
    /\ GeomIdle /\ SampleIdle /\ RenderIdle
    /\ callArgs \in RecordCalls
    /\ callRet = <<>>
    /\ callpc = "call"

\* Sphere::hit / MovingSphere::hit
CHit ==
    /\ callpc = "call"
    /\ callRet' = HitRecordOf(callArgs.h, callArgs.ray, callArgs.t_min, callArgs.t_max)
    /\ callpc' = "done"
    /\ UNCHANGED <<notCall, callArgs>>

\* The lists make_tree is called with: up to MaxBuild primitives of a
\* catalogue of six, in catalogue order (make_tree sorts them), and the
\* window (t0, t1).
BuildPrimitives ==
    Primitives \o
    << [kind |-> "sphere", id |-> 5, center |-> <<3, -1, -6>>, radius |-> 2],
       [kind |-> "sphere", id |-> 6, center |-> <<-4, 1, -3>>, radius |-> 1] >>

MaxBuild == 6

RECURSIVE PickFrom(_, _, _)
PickFrom(list, q, k) ==
    IF k > Len(list) THEN <<>>
    ELSE IF k \in q THEN <<list[k]>> \o PickFrom(list, q, k + 1)
    ELSE PickFrom(list, q, k + 1)

BuildCalls ==
    {[hittables |-> PickFrom(BuildPrimitives, q, 1), t0 |-> w[1], t1 |-> w[2]] :
        q \in {x \in SUBSET (1..Len(BuildPrimitives)) :
                  Cardinality(x) >= 1 /\ Cardinality(x) <= MaxBuild},
        w \in {<<0, 1>>, <<1, 2>>}}

BuildInit ==
    /\ GeomIdle /\ SampleIdle /\ RenderIdle
    /\ callArgs \in BuildCalls
    /\ callRet = <<>>
    /\ callpc = "call"

\* BvhNode::make_tree, for every sequence of axis draws
CMakeTree ==
    /\ callpc = "call"
    /\ \E dims \in [1..DrawsFor(Len(callArgs.hittables)) -> 1..3] :
          callRet' = [tree |-> MakeTree(callArgs.hittables, callArgs.t0, callArgs.t1, dims),
                      dims |-> dims]
    /\ callpc' = "done"
    /\ UNCHANGED <<notCall, callArgs>>

\* --- Camera ---------------------------------------------------------------

\* (theta / 2.).tan() for theta = vfov.to_radians(): 1 at 90 degrees, the
\* field of view the model's cameras have
TanHalf(vfov) == CASE vfov = 90 -> Int2F(1)

\* a lens of radius 1 whatever the aperture
LensRadiusOne(settings) == Int2F(1)

\* "lens_radius: settings.aperture / 2."
LensRadius(settings) == FDiv(Int2F(settings.aperture), Int2F(2))

\* Camera::new, for settings with t0 < t1
CameraNew(settings, aspect_ratio) ==
    LET h               == TanHalf(settings.vfov)
        viewport_height == FMul(Int2F(2), h)
        viewport_width  == FMul(Int2F(aspect_ratio), viewport_height)
        w          == UnitVector(VSub(VecF(settings.look_from), VecF(settings.look_at)))
        u          == UnitVector(VCross(VecF(settings.vup), w))
        v          == VCross(w, u)
        origin     == VecF(settings.look_from)
        horizontal == VMulF(u, FMul(Int2F(settings.focus_dist), viewport_width))
        vertical   == VMulF(v, FMul(Int2F(settings.focus_dist), viewport_height))
        lower_left_corner ==
            VSub(VSub(VSub(origin, VDivF(horizontal, Int2F(2))), VDivF(vertical, Int2F(2))),
                 VMulF(w, Int2F(settings.focus_dist)))
    IN  [origin |-> origin, lower_left_corner |-> lower_left_corner,
         horizontal |-> horizontal, vertical |-> vertical, u |-> u, v |-> v,
         lens_radius |-> LensRadius(settings),
         time_dist |-> [low |-> settings.t0, high |-> settings.t1]]

\* Uniform<f64>::sample: low + (high - low) * x for a draw x of [0, 1)
UniformSample(dist, x) ==
    FAdd(Int2F(dist.low), FMul(Int2F(dist.high - dist.low), x))

\* the draws of [0, 1) the time sample is made from
UnitSamples == {Fin(0, 1), Fin(1, 2), Fin(3, 4)}

\* Camera::get_ray(s, t, ..): disk is the point random_in_unit_disk returns,
\* x the draw behind time_dist.sample
GetRay(camera, s, t, disk, x) ==
    LET rd     == VMulF(disk, camera.lens_radius)
        offset == VAdd(VMulF(camera.u, rd[1]), VMulF(camera.v, rd[2]))
    IN  [origin |-> VAdd(camera.origin, offset),
         dir    |-> VSub(VSub(VAdd(VAdd(camera.lower_left_corner,
                                        VMulF(camera.horizontal, s)),
                                   VMulF(camera.vertical, t)),
                              camera.origin),
                         offset),
         time   |-> UniformSample(camera.time_dist, x)]

\* The cameras: looking down -z from the origin and looking at the origin
\* from (3, 0, 4), up being +y, so that the basis u, v, w is rational; with
\* and without a lens; shutters with t0 < t1 and the default t0 = t1 = 0.
CameraSettings ==
    {[look_from |-> e[1], look_at |-> e[2], vup |-> <<0, 1, 0>>, vfov |-> 90,
      aperture |-> ap, focus_dist |-> fd, t0 |-> sh.t0, t1 |-> sh.t1] :
        e \in {<< <<0, 0, 0>>, <<0, 0, -1>> >>, << <<3, 0, 4>>, <<0, 0, 0>> >>},
        ap \in {0, 2}, fd \in {1, 2},
        sh \in ShutterSettings \cup {[t0 |-> 1, t1 |-> 3]}}

\* the (s, t) of get_ray: corners and centre of the viewport
ViewportCoords == {Fin(0, 1), Fin(1, 2), Fin(1, 1)}

\* the points random_in_unit_disk can return
DiskPoints ==
    {<<Fin(q[1], 2), Fin(q[2], 2), Int2F(0)>> :
        q \in {d \in UnitDraws \X UnitDraws : InUnitDisk(d[1], d[2])}}

CameraInit ==
    /\ GeomIdle /\ SampleIdle /\ RenderIdle
    /\ callArgs \in {[settings |-> c, aspect_ratio |-> ar, s |-> s, t |-> t] :
                        c \in CameraSettings, ar \in {1, 2},
                        s \in ViewportCoords, t \in ViewportCoords}
    /\ callRet = <<>>
    /\ callpc = "call"

\* Camera::new returns
CCameraNew ==
    /\ callpc = "call"
    /\ ~CameraNewPanics(callArgs.settings)
    /\ callRet' = [camera |-> CameraNew(callArgs.settings, callArgs.aspect_ratio)]
    /\ callpc' = "camera"
    /\ UNCHANGED <<notCall, callArgs>>

\* Camera::new panics in Uniform::from
CCameraPanic ==
    /\ callpc = "call"
    /\ CameraNewPanics(callArgs.settings)
    /\ callRet' = [panic |-> "Uniform::new called with low >= high"]
    /\ callpc' = "panicked"
    /\ UNCHANGED <<notCall, callArgs>>

\* camera.get_ray(s, t, ..), for every point of the disk and every time draw
CGetRay ==
    /\ callpc = "camera"
    /\ \E disk \in DiskPoints, x \in UnitSamples :
          callRet' = [camera |-> callRet.camera, disk |-> disk,
                      ray |-> GetRay(callRet.camera, callArgs.s, callArgs.t, disk, x)]
    /\ callpc' = "done"
    /\ UNCHANGED <<notCall, callArgs>>

CameraNext == CCameraNew \/ CCameraPanic \/ CGetRay

\* --- Vec3::reflect ---------------------------------------------------------

\* unit vectors with rational components: the axes and their opposites, and
\* directions off the axes
UnitNormals ==
    {<<Int2F(1), Int2F(0), Int2F(0)>>, <<Int2F(0), Int2F(-1), Int2F(0)>>,
     <<Int2F(0), Int2F(0), Int2F(1)>>,
     <<Fin(3, 5), Fin(4, 5), Int2F(0)>>, <<Int2F(0), Fin(-4, 5), Fin(3, 5)>>,
     <<Fin(2, 3), Fin(-1, 3), Fin(2, 3)>>, <<Fin(2, 7), Fin(3, 7), Fin(6, 7)>>}

\* the normals handed to reflect: the unit ones and one of length sqrt 2
Normals == UnitNormals \cup {<<Int2F(1), Int2F(1), Int2F(0)>>}

\* the vectors reflected: integer and half-integer components
ReflectedVectors ==
    {<<Fin(x, 2), Int2F(y), Int2F(z)>> : x \in {-3, 0, 2}, y \in {-1, 0, 2}, z \in {-2, 0, 1}}

ReflectInit ==
    /\ GeomIdle /\ SampleIdle /\ RenderIdle
    /\ callArgs \in {[v |-> v, normal |-> n] : v \in ReflectedVectors, n \in Normals}
    /\ callRet = <<>>
    /\ callpc = "call"

\* v.reflect(&normal), and then the same on its result
CReflect ==
    /\ callpc \in {"call", "once"}
    /\ callRet' = Reflect(IF callpc = "call" THEN callArgs.v ELSE callRet, callArgs.normal)
    /\ callpc' = IF callpc = "call" THEN "once" ELSE "done"
    /\ UNCHANGED <<notCall, callArgs>>

\* --- ray_color --------------------------------------------------------------
\* The world and the random draws are given by what they make happen at each
\* depth: world.hit returns None, or a record of some material, and for a
\* Metal the fuzzed reflection leaves the surface or does not.

Black == VecF(<<0, 0, 0>>)
White == VecF(<<1, 1, 1>>)

\* Mul for Color: elementwise
ColorMul(a, b) == [i \in 1..3 |-> FMul(a[i], b[i])]

\* the materials of the hit records: an albedo for Lambertian, Metal and
\* Light (its texture), and the colour Light::emitted returns
Lambertian    == [kind |-> "Lambertian", albedo |-> <<Fin(1, 2), Fin(1, 4), Int2F(1)>>]
Metal         == [kind |-> "Metal", albedo |-> <<Int2F(1), Int2F(0), Int2F(1)>>]
Dielectric    == [kind |-> "Dielectric"]
Lights        == {[kind |-> "Light", albedo |-> <<Fin(1, 2), Fin(1, 2), Fin(1, 2)>>, color |-> c] :
                     c \in {VecF(<<4, 4, 4>>), VecF(<<1, 0, 0>>)}}

\* the direction of the ray a material scatters (it depends on the hit and
\* on the draws; one direction per material is enough here)
ScatteredDir(m) ==
    CASE m.kind = "Lambertian" -> <<4, 3, 0>>
      [] m.kind = "Metal"      -> <<0, 1, 0>>
      [] m.kind = "Dielectric" -> <<0, -1, 0>>
      [] m.kind = "Light"      -> <<3, -4, 0>>

NoScatter == [some |-> FALSE]
Scattered(dir, attenuation) == [some |-> TRUE, dir |-> dir, attenuation |-> attenuation]

\* the code that follows "return None;" in Light::scatter
LightScatterDiffuse(m) == Scattered(ScatteredDir(m), m.albedo)

\* Light::scatter: "return None;"
LightScatter(m) == NoScatter

\* Material::scatter; leaves is whether the reflected direction of a Metal
\* has ray.dir.dot(&rec.normal) > 0
Scatter(m, leaves) ==
    CASE m.kind = "Lambertian" -> Scattered(ScatteredDir(m), m.albedo)
      [] m.kind = "Metal"      -> IF leaves THEN Scattered(ScatteredDir(m), m.albedo)
                                  ELSE NoScatter
      [] m.kind = "Dielectric" -> Scattered(ScatteredDir(m), White)
      [] m.kind = "Light"      -> LightScatter(m)

\* Material::emitted
Emitted(m) == IF m.kind = "Light" THEN m.color ELSE Black

\* the last three lines of ray_color
SkyGradient(dir) ==
    LET unit_dir == UnitVector(VecF(dir))
        t        == FMul(Fin(1, 2), FAdd(unit_dir[2], Int2F(1)))
    IN  VAdd(VMulF(White, FSub(Int2F(1), t)),
             VMulF(<<Fin(1, 2), Fin(7, 10), Int2F(1)>>, t))

\* HitRecord.point: "point: ray.at(t)", origin + t * dir, for the hit at t = 1
HitPoint(incoming) == [i \in 1..3 |-> incoming.origin[i] + incoming.dir[i]]

\* a variant that draws the scattered ray's time afresh (as get_ray does)
ScatteredRayAtShutterOpen(incoming, rec, dir) == [origin |-> rec.point, dir |-> dir, time |-> 0]

\* the ray every scatter builds: "Ray { origin: rec.point, dir, time: ray.time }"
ScatteredRay(incoming, rec, dir) == [origin |-> rec.point, dir |-> dir, time |-> incoming.time]

\* a variant that drops the attenuation
Unattenuated(attenuation, c) == c

\* "attenuation * ray_color(..)"
Attenuate(attenuation, c) == ColorMul(attenuation, c)

\* what happens to the ray of one call: no hit, or a hit of a material
Miss == [hit |-> FALSE]
HitEvents ==
    {[hit |-> TRUE, material |-> m, leaves |-> l] :
        m \in {Lambertian, Dielectric} \cup Lights, l \in {TRUE}} \cup
    {[hit |-> TRUE, material |-> Metal, leaves |-> l] : l \in BOOLEAN}

\* the longest list of events given one by one
MaxPrefix == 2

\* The events by depth: those of prefix, and then tail at every further depth
\* (a ray between two mirrors goes on to the depth cap).
EventAt(path, d) == IF d < Len(path.prefix) THEN path.prefix[d + 1] ELSE path.tail

Paths ==
    {[dir |-> dir, time |-> time, prefix |-> pre, tail |-> tl] :
        dir \in {<<0, 1, 0>>, <<-3, 0, 4>>}, time \in Times,
        pre \in UNION {[1..k -> HitEvents] : k \in 0..MaxPrefix},
        tl \in {Miss} \cup HitEvents}

RayColorInit ==
    /\ GeomIdle /\ SampleIdle /\ RenderIdle
    /\ callArgs \in Paths
    /\ callRet = [depth |-> 0, dir |-> callArgs.dir, stack |-> <<>>, rec |-> Miss,
                  value |-> Black, attenuations |-> <<>>, hits |-> <<>>,
                  terminal |-> "none", consulted |-> {},
                  origin |-> <<0, 0, 0>>, time |-> callArgs.time, tested |-> <<>>]
    /\ callpc = "enter"

\* the ray of the innermost call
CurrentRay == [origin |-> callRet.origin, dir |-> callRet.dir, time |-> callRet.time]

\* "if depth >= MAX_CHILD_RAY_DEPTH { return color!(); }"
ColCap ==
    /\ callpc = "enter"
    /\ DepthCapReached(callRet.depth)
    /\ callRet' = [callRet EXCEPT !.value = Black, !.terminal = "cap"]
    /\ callpc' = "return"
    /\ UNCHANGED <<notCall, callArgs>>

\* world.hit returns None: the sky gradient of this call's ray
ColMiss ==
    /\ callpc = "enter"
    /\ ~DepthCapReached(callRet.depth)
    /\ ~EventAt(callArgs, callRet.depth).hit
    /\ callRet' = [callRet EXCEPT !.value = SkyGradient(callRet.dir), !.terminal = "sky",
                                  !.rec = Miss, !.tested = Append(@, CurrentRay.time)]
    /\ callpc' = "return"
    /\ UNCHANGED <<notCall, callArgs>>

\* world.hit returns a record
ColHit ==
    /\ callpc = "enter"
    /\ ~DepthCapReached(callRet.depth)
    /\ EventAt(callArgs, callRet.depth).hit
    /\ callRet' = [callRet EXCEPT !.rec = [hit      |-> TRUE,
                                           material |-> EventAt(callArgs, callRet.depth).material,
                                           leaves   |-> EventAt(callArgs, callRet.depth).leaves,
                                           point    |-> HitPoint(CurrentRay)],
                                  !.hits = Append(@, EventAt(callArgs, callRet.depth).material),
                                  !.tested = Append(@, CurrentRay.time)]
    /\ callpc' = "scatter"
    /\ UNCHANGED <<notCall, callArgs>>

\* scatter returns Some((ray, attenuation)): this call waits for
\* ray_color(&ray, .., depth + 1)
ColScatter ==
    /\ callpc = "scatter"
    /\ LET res == Scatter(callRet.rec.material, callRet.rec.leaves)
           scattered == ScatteredRay(CurrentRay, callRet.rec, res.dir)
       IN  /\ res.some
           /\ callRet' = [callRet EXCEPT !.depth = @ + 1, !.dir = scattered.dir,
                                         !.origin = scattered.origin,
                                         !.time = scattered.time,
                                         !.stack = Append(@, res.attenuation),
                                         !.attenuations = Append(@, res.attenuation),
                                         !.consulted = @ \cup {"scatter"}]
    /\ callpc' = "enter"
    /\ UNCHANGED <<notCall, callArgs>>

\* scatter returns None: "return color!();"
ColNoScatter ==
    /\ callpc = "scatter"
    /\ ~Scatter(callRet.rec.material, callRet.rec.leaves).some
    /\ callRet' = [callRet EXCEPT !.value = Black, !.terminal = "no_scatter",
                                  !.consulted = @ \cup {"scatter"}]
    /\ callpc' = "return"
    /\ UNCHANGED <<notCall, callArgs>>

\* a call returns to the call that waits for it: "return attenuation * .."
ColReturn ==
    /\ callpc = "return"
    /\ callRet.stack # <<>>
    /\ callRet' = [callRet EXCEPT
                      !.value = Attenuate(callRet.stack[Len(callRet.stack)], @),
                      !.stack = SubSeq(@, 1, Len(@) - 1),
                      !.depth = @ - 1]
    /\ UNCHANGED <<notCall, callArgs, callpc>>

\* the call with depth 0 returns to raytrace_image
ColDone ==
    /\ callpc = "return"
    /\ callRet.stack = <<>>
    /\ callpc' = "done"
    /\ UNCHANGED <<notCall, callArgs, callRet>>

ColorNext == ColCap \/ ColMiss \/ ColHit \/ ColScatter \/ ColNoScatter \/ ColReturn \/ ColDone

\* --- World::hit -------------------------------------------------------------

\* The primitives of the worlds: spheres one behind the other on the -z axis
\* (two of them concentric), one off the axis and the moving sphere.
WorldPrimitives ==
    << Primitives[1],
       [kind |-> "sphere", id |-> 7, center |-> <<0, 0, -4>>, radius |-> 2],
       [kind |-> "sphere", id |-> 8, center |-> <<0, 0, -8>>, radius |-> 1],
       Primitives[2], Primitives[4] >>

\* the most primitives in a world
MaxWorld == 3

\* the worlds: lists without repetition, in every order, the empty one included
Worlds ==
    UNION {{w \in [1..n -> Range(WorldPrimitives)] :
               \A j, k \in 1..n : j # k => w[j] # w[k]} : n \in 0..MaxWorld}

WorldInit ==
    /\ GeomIdle /\ SampleIdle /\ RenderIdle
    /\ callArgs \in {[hittables |-> w, ray |-> r, t_min |-> tr[1], t_max |-> tr[2]] :
                        w \in Worlds,
                        r \in {x \in Rays : x.dir \in {<<0, 0, -1>>, <<1, 0, -1>>, <<-1, 0, -1>>,
                                                       <<0, 0, 0>>}},
                        tr \in TRanges}
    /\ callRet = <<>>
    /\ callpc = "call"

\* World::hit; each is what filter_map collects, a primitive's None included
CWorldHit ==
    /\ callpc = "call"
    /\ callRet' = [rec  |-> WorldHit(callArgs.hittables, callArgs.ray,
                                     callArgs.t_min, callArgs.t_max),
                   each |-> [k \in DOMAIN callArgs.hittables |->
                                HittableHit(callArgs.hittables[k], callArgs.ray,
                                            callArgs.t_min, callArgs.t_max)]]
    /\ callpc' = "done"
    /\ UNCHANGED <<notCall, callArgs>>

\* --- MovingSphere -----------------------------------------------------------

\* The moving spheres: the one of the geometry inputs, the same with a
\* negative radius (MovingSphere::new takes any f64), and one that moves
\* along x and z between times 1 and 3.
MovingSpheres ==
    { Primitives[4],
      [Primitives[4] EXCEPT !.id = 9, !.radius = -1],
      [kind |-> "moving", id |-> 10, center0 |-> <<0, 0, -4>>, center1 |-> <<2, 0, -6>>,
       t0 |-> 1, t1 |-> 3, radius |-> 1] }

\* the windows bounding_box is asked for, and the ray times
ShutterWindows == {<<0, 1>>, <<1, 2>>, <<0, 2>>, <<1, 3>>}
RayTimes       == 0..3

MovingInit ==
    /\ GeomIdle /\ SampleIdle /\ RenderIdle
    /\ callArgs \in {[s |-> s, t0 |-> w[1], t1 |-> w[2],
                      ray |-> [origin |-> o, dir |-> d, time |-> tau],
                      t_min |-> Fin(1, 1000), t_max |-> PInf] :
                        s \in MovingSpheres, w \in ShutterWindows,
                        o \in Origins, d \in Dirs, tau \in RayTimes}
    /\ callRet = <<>>
    /\ callpc = "call"

\* self.center(ray.time), self.bounding_box(t0, t1) and self.hit(ray, ..)
CMovingSphere ==
    /\ callpc = "call"
    /\ callRet' = [center |-> MovingCenter(callArgs.s, callArgs.ray.time),
                   box    |-> MovingSphereBox(callArgs.s, callArgs.t0, callArgs.t1),
                   rec    |-> MovingSphereHit(callArgs.s, callArgs.ray,
                                              callArgs.t_min, callArgs.t_max)]
    /\ callpc' = "done"
    /\ UNCHANGED <<notCall, callArgs>>

-----------------------------------------------------------------------------
(* Specifications *)

GeomSpecInit == GeomInit /\ SampleIdle /\ RenderIdle /\ CallIdle

GeomSpec == GeomSpecInit /\ [][GeomNext]_vars

SampleSpecInit == SampleInit /\ GeomIdle /\ RenderIdle /\ CallIdle

SampleSpec == SampleSpecInit /\ [][SampleNext]_vars

\* The sample runs on one thread, which keeps running; a fair random source
\* does not draw points outside the unit disk for ever.
SampleFairSpec ==
    /\ SampleSpec
    /\ WF_vars(SGetRay \/ SRayColor \/ RayColorNext)
    /\ SF_vars(SLensAccept)

RecordSpec == RecordInit /\ [][CHit]_vars

BuildSpec == BuildInit /\ [][CMakeTree]_vars

CameraSpec == CameraInit /\ [][CameraNext]_vars

ReflectSpec == ReflectInit /\ [][CReflect]_vars

RayColorSpec == RayColorInit /\ [][ColorNext]_vars

WorldSpec == WorldInit /\ [][CWorldHit]_vars

MovingSpec == MovingInit /\ [][CMovingSphere]_vars

RenderSpec == RenderInit /\ [][RenderNext]_vars

\* The pool's threads keep running, so a step of raytrace_image that can be
\* taken is taken.
FairRenderSpec ==
    /\ RenderSpec
    /\ WF_vars(RCameraNew \/ RCameraPanic)
    /\ WF_vars(RStartLine)
    /\ WF_vars(RPixel)
    /\ WF_vars(RFinishLine)
    /\ WF_vars(RReturn)

TwoRunSpec == TwoRunInit /\ [][RenderNext]_vars

-----------------------------------------------------------------------------
(* C1 *)

\* the ray point at parameter t (an f64 value), on axis i
PointAt(r, t, i) == FAdd(Int2F(r.origin[i]), FMul(t, Int2F(r.dir[i])))

\* whether the ray point at t is inside the box on all three axes
InsideBox(box, r, t) ==
    \A i \in 1..3 : FLe(box.min[i], PointAt(r, t, i)) /\ FLe(PointAt(r, t, i), box.max[i])

\* Whether some t in [t_min, t_max] puts the ray point inside the box.  The
\* set of such t is an intersection of closed intervals, so when it is not
\* empty it holds t_min or a parameter at which the ray meets a face plane.
RayMeetsBox(box, r, t_min, t_max) ==
    LET faces == {FDiv(FSub(box.min[i], Int2F(r.origin[i])), Int2F(r.dir[i])) :
                      i \in {j \in 1..3 : r.dir[j] # 0}}
                 \cup {FDiv(FSub(box.max[i], Int2F(r.origin[i])), Int2F(r.dir[i])) :
                      i \in {j \in 1..3 : r.dir[j] # 0}}
    IN  \E t \in faces \cup {t_min} :
            /\ IsFin(t) /\ FLe(t_min, t) /\ FLe(t, t_max)
            /\ InsideBox(box, r, t)

SameClosest(rec_a, rec_b) ==
    /\ rec_a.hit = rec_b.hit
    /\ rec_a.hit => SurdEq(rec_a.t, rec_b.t)

\* C1 (as claimed): for any ray, any (t_min, t_max) and any scene of two or
\* more primitives, BvhNode::hit on the tree make_tree built returns a hit
\* exactly when World::hit over the same primitives does, with the same t.
C1_BvhEqualsLinearScan ==
    (gpc = "done" /\ IsNode(tree) /\ Len(scene) >= 2) => SameClosest(bvhRes, worldRes)

\* C2 (as claimed): AABB::hit returns true exactly when some single t in
\* [t_min, t_max] puts the ray point inside the box on all three axes.
C2_AabbHitIffRayMeetsBox ==
    (gpc \in {"bvh", "done"} /\ IsNode(tree)) =>
        (boxRes <=> RayMeetsBox(tree.bounding_box, ray, tmin, tmax))

-----------------------------------------------------------------------------
(* C10 *)

\* the quadratic of primitive h for ray r, and the scale q of its roots
QuadraticOf(h, r) ==
    IF h.kind = "sphere" THEN [e |-> Quadratic(SphereOc(h, r), 1, h.radius, r), q |-> 1]
    ELSE [e |-> Quadratic(MovingOc(h, r).oc_q, MovingOc(h, r).q, h.radius, r),
          q |-> MovingOc(h, r).q]

\* the roots of the quadratic, as a set: none when the discriminant is
\* negative (or the direction is the zero vector)
RootsOf(h, r) ==
    LET qd == QuadraticOf(h, r)
    IN  IF qd.e.discriminant < 0 \/ qd.e.a = 0 THEN {}
        ELSE {SmallerRoot(qd.e, qd.q), LargerRoot(qd.e, qd.q)}

\* strictly inside (t_min, t_max)
StrictlyInside(t, t_min, t_max) == SurdGtF(t, t_min) /\ SurdLtF(t, t_max)

PrimHitDone == gpc \in {"build", "box", "bvh", "done"}

\* C10: Sphere::hit and MovingSphere::hit return no hit when the discriminant
\* is negative; otherwise the smallest root strictly inside (t_min, t_max),
\* and no hit when neither root is strictly inside; a root equal to t_min or
\* t_max is never returned.
C10_FirstRootStrictlyInside ==
    PrimHitDone =>
        \A k \in 1..Len(scene) :
            LET inside == {t \in RootsOf(scene[k], ray) : StrictlyInside(t, tmin, tmax)}
                rec    == primRes[k]
            IN  /\ ~rec.hit <=> inside = {}
                /\ rec.hit =>
                      /\ \E t \in inside : SurdEq(rec.t, t)
                      /\ \A t \in inside : ~SurdLt(t, rec.t)
                      /\ StrictlyInside(rec.t, tmin, tmax)

\* a primitive returned its larger root because the smaller one is not
\* strictly inside the range
C10_Witness_LargerRoot ==
    /\ PrimHitDone
    /\ \E k \in 1..Len(scene) :
          /\ primRes[k].hit /\ primRes[k].t.s = 1 /\ primRes[k].t.r > 0
          /\ ~StrictlyInside(SmallerRoot(QuadraticOf(scene[k], ray).e,
                                         QuadraticOf(scene[k], ray).q), tmin, tmax)

-----------------------------------------------------------------------------
(* C3 *)

\* C3: ray_color is depth-bounded: a primary ray (depth 0) causes at most 50
\* scene hit tests and at most 50 scatter calls; once depth reaches the cap
\* the call returns black without a hit test; and the recursion terminates.
C3_DepthBounded ==
    /\ [](/\ hitTests <= MAX_CHILD_RAY_DEPTH
          /\ scatterCalls <= MAX_CHILD_RAY_DEPTH
          /\ depth <= MAX_CHILD_RAY_DEPTH
          /\ terminal = "cap" => (hitTests = depth /\ depth = MAX_CHILD_RAY_DEPTH))
    /\ (spc = "rc_enter" /\ depth = 0) ~> (spc = "done")

\* a path that scattered 50 times and was cut off by the cap
C3_Witness_CapReached ==
    /\ spc = "done" /\ terminal = "cap"
    /\ scatterCalls = MAX_CHILD_RAY_DEPTH /\ hitTests = MAX_CHILD_RAY_DEPTH

-----------------------------------------------------------------------------
(* C4 .. C9 *)

Returned(a) == a \in DOMAIN runs /\ runs[a].phase = "returned"

C6_GeneratorNotShared ==
    \A a \in DOMAIN runs :
        /\ \A g \in Workers : runs[a].rngUsers[g] \subseteq {g}
        /\ \A w \in Workers : runs[a].worker[w].line # -1 => runs[a].worker[w].rng = w
        /\ Returned(a) =>
              \A r \in 1..image_height, i \in 1..image_width :
                  \A q \in 1..image_height, h \in 1..image_width :
                      (runs[a].image[r][i].draws = runs[a].image[q][h].draws)
                          => (r = q /\ i = h)

\* two threads are in the middle of scanlines at once and both have drawn
C6_Witness_TwoWorkersDrawing ==
    /\ 1 \in DOMAIN runs
    /\ \E w1 \in Workers, w2 \in Workers :
          /\ w1 # w2
          /\ runs[1].worker[w1].col = 1 /\ runs[1].worker[w2].col = 1
          /\ runs[1].rngUsers[w1] = {w1} /\ runs[1].rngUsers[w2] = {w2}

\* C7: from the start of raytrace_image until it returns the world is
\* unchanged by every step of every worker.
C7_WorldUnchanged ==
    \A a \in DOMAIN runs : runs[a].world = runs[a].world0

\* a render over a world with primitives has computed every pixel and returned
C7_Witness_RenderedWorld ==
    /\ Returned(1)
    /\ Len(runs[1].world0) > 0
    /\ \A g \in Workers : runs[1].rngPos[g] > 0

\* C8 (as claimed): two renders with the same arguments and the same random
\* streams return identical grids, whatever the assignment of scanlines to
\* workers and the order the workers run in.
C8_SameSeedsSameImage ==
    (Returned(1) /\ Returned(2)) => runs[1].image = runs[2].image

\* C9 (as claimed): under fair scheduling a render runs to completion:
\* every scanline is eventually computed and raytrace_image returns.
C9_RenderCompletes ==
    <>(\A a \in DOMAIN runs :
          /\ \A j \in Scanlines : runs[a].line[j] = "done"
          /\ runs[a].phase = "returned")

\* Once the camera is built the render does complete.
RenderCompletesOnceCameraBuilt ==
    \A a \in {1} : (runs[a].phase = "render") ~> (runs[a].phase = "returned")

-----------------------------------------------------------------------------
(* C11 *)

\* dir . (point - center) for the returned root t = (-half_b + s*root)/a is
\* s*root: a times t plus half_b.  Its sign, divided by the radius:
SignOfDirDotOutward(h, r, t) == t.s * Sgn(t.r) * Sgn(h.radius)

RecordDone == callpc = "done" /\ callRet.hit

\* C11: every HitRecord returned by Sphere::hit or MovingSphere::hit has
\* front_face true exactly when dot(ray.dir, outward normal) < 0, the outward
\* normal being (point - center)/radius, and its stored normal never points
\* along the incoming ray: dot(ray.dir, record.normal) <= 0 for front and back
\* hits alike.
C11_FrontFaceAndNormalOpposeRay ==
    RecordDone =>
        /\ callRet.front_face
              <=> (SignOfDirDotOutward(callArgs.h, callArgs.ray, callRet.t) < 0)
        /\ XSgn(XDot(callArgs.ray.dir, callRet.normal)) <= 0

\* a back hit: the ray starts inside the sphere and leaves it, and the normal
\* stored is the flipped one
C11_Witness_BackHit ==
    /\ RecordDone
    /\ ~callRet.front_face
    /\ callArgs.h.radius > 0
    /\ XSgn(XDot(callArgs.ray.dir, callRet.normal)) < 0

-----------------------------------------------------------------------------
(* C12, C16, C17, C18: the trees make_tree builds *)

BuildDone == callpc = "done"
Built     == BuildDone /\ IsNode(callRet.tree)

IsLeaf(h) == h.kind \in {"sphere", "moving"}

\* the internal nodes of a tree, the root included
RECURSIVE NodesOf(_)
NodesOf(h) == IF IsNode(h) THEN {h} \cup NodesOf(h.left) \cup NodesOf(h.right) ELSE {}

\* the primitives at the leaves, left to right
RECURSIVE LeavesOf(_)
LeavesOf(h) == IF IsNode(h) THEN LeavesOf(h.left) \o LeavesOf(h.right) ELSE <<h>>

NumLeaves(h) == Len(LeavesOf(h))

Ordered(box) == \A i \in 1..3 : FLe(box.min[i], box.max[i])

\* C12: every AABB the program produces (Sphere::bounding_box,
\* MovingSphere::bounding_box, AABB::surrounding_box, every BvhNode box)
\* satisfies min <= max on each of the three axes, for every sphere radius the
\* public interface accepts.
C12_BoxesOrdered ==
    BuildDone =>
        /\ \A k \in DOMAIN callArgs.hittables :
              Ordered(BoundingBox(callArgs.hittables[k], callArgs.t0, callArgs.t1))
        /\ \A node \in NodesOf(callRet.tree) : Ordered(node.bounding_box)

\* C16: make_tree called with a list of exactly one primitive panics and
\* returns no tree (its return type is BvhNode, not a Result).
C16_SingletonPanics ==
    (BuildDone /\ Len(callArgs.hittables) = 1) =>
        /\ callRet.tree.kind = "panic"
        /\ ~IsNode(callRet.tree) /\ callRet.tree \notin Range(callArgs.hittables)

C16_Witness_SingletonCall == BuildDone /\ Len(callArgs.hittables) = 1

\* the shape the claim gives to a tree over n primitives
RECURSIVE ShapeOk(_)
ShapeOk(h) ==
    IF IsLeaf(h) THEN TRUE
    ELSE IF ~IsNode(h) THEN FALSE
    ELSE LET n == NumLeaves(h)
         IN  CASE n = 2 -> IsLeaf(h.left) /\ IsLeaf(h.right)
               [] n = 3 -> IsLeaf(h.left) /\ IsNode(h.right) /\ NumLeaves(h.right) = 2
                           /\ ShapeOk(h.right)
               [] n >= 4 -> /\ NumLeaves(h.left) = n - (n \div 2)
                            /\ NumLeaves(h.right) = n \div 2
                            /\ NumLeaves(h.left) >= 2 /\ NumLeaves(h.right) >= 2
                            /\ IsNode(h.left) /\ IsNode(h.right)
                            /\ ShapeOk(h.left) /\ ShapeOk(h.right)
               [] OTHER -> FALSE

\* C17: for every list of n >= 2 primitives and every sequence of axis draws
\* make_tree returns a tree (it neither panics nor recurses for ever) after
\* n - 1 calls; 2 primitives give a node with two leaves, 3 give a leaf and a
\* pair, n >= 4 are split into n - floor(n/2) and floor(n/2), both >= 2; every
\* input primitive is exactly one leaf.
C17_MakeTreeTerminatesWithShape ==
    (BuildDone /\ Len(callArgs.hittables) >= 2) =>
        /\ IsNode(callRet.tree)
        /\ Cardinality(NodesOf(callRet.tree)) = Len(callArgs.hittables) - 1
        /\ ShapeOk(callRet.tree)
        /\ NumLeaves(callRet.tree) = Len(callArgs.hittables)
        /\ Range(LeavesOf(callRet.tree)) = Range(callArgs.hittables)

\* a list of five: split into three and two, the three into a leaf and a pair
C17_Witness_FiveSplit ==
    /\ Built
    /\ Len(callArgs.hittables) = 5
    /\ NumLeaves(callRet.tree.left) = 3 /\ NumLeaves(callRet.tree.right) = 2

\* the componentwise union, by comparisons
UnionOf(a, b) ==
    [min |-> [i \in 1..3 |-> IF FLe(a.min[i], b.min[i]) THEN a.min[i] ELSE b.min[i]],
     max |-> [i \in 1..3 |-> IF FLe(b.max[i], a.max[i]) THEN a.max[i] ELSE b.max[i]]]

Contains(outer, inner) ==
    \A i \in 1..3 : FLe(outer.min[i], inner.min[i]) /\ FLe(inner.max[i], outer.max[i])

\* C18: in every tree built by make_tree each internal node's bounding_box
\* is the componentwise union (min of mins, max of maxes) of the boxes of its
\* two children, and the root box contains the box of every primitive.
C18_NodeBoxIsUnionOfChildren ==
    Built =>
        /\ \A node \in NodesOf(callRet.tree) :
              node.bounding_box =
                  UnionOf(BoundingBox(node.left, callArgs.t0, callArgs.t1),
                          BoundingBox(node.right, callArgs.t0, callArgs.t1))
        /\ \A k \in DOMAIN callArgs.hittables :
              Contains(callRet.tree.bounding_box,
                       BoundingBox(callArgs.hittables[k], callArgs.t0, callArgs.t1))

\* a root whose box is larger than the box of either child
C18_Witness_ProperUnion ==
    /\ Built
    /\ Len(callArgs.hittables) >= 4
    /\ callRet.tree.bounding_box # callRet.tree.left.bounding_box
    /\ callRet.tree.bounding_box # callRet.tree.right.bounding_box

-----------------------------------------------------------------------------
(* C13, C14: Camera::new and Camera::get_ray *)

RayReturned == callpc = "done"

\* the point of the viewport for (s, t), from the settings: the focus plane
\* is focus_dist in front of look_from, 2 * focus_dist * tan(vfov/2) high and
\* aspect_ratio times as wide, and (s, t) = (1/2, 1/2) is its centre
ViewportPoint(settings, aspect_ratio, s, t) ==
    LET fd   == Int2F(settings.focus_dist)
        w    == UnitVector(VSub(VecF(settings.look_from), VecF(settings.look_at)))
        u    == UnitVector(VCross(VecF(settings.vup), w))
        v    == VCross(w, u)
        half == FMul(fd, TanHalf(settings.vfov))
        du   == FMul(FMul(FSub(FMul(Int2F(2), s), Int2F(1)), half), Int2F(aspect_ratio))
        dv   == FMul(FSub(FMul(Int2F(2), t), Int2F(1)), half)
    IN  VAdd(VAdd(VSub(VecF(settings.look_from), VMulF(w, fd)), VMulF(u, du)), VMulF(v, dv))

\* C13: with aperture = 0 every ray returned by get_ray, for every (s, t)
\* and every draw, has origin exactly look_from, and its direction is the
\* viewport point for (s, t) minus look_from, with no lens offset.
C13_PinholeRay ==
    (RayReturned /\ callArgs.settings.aperture = 0) =>
        /\ callRet.ray.origin = VecF(callArgs.settings.look_from)
        /\ callRet.ray.dir =
              VSub(ViewportPoint(callArgs.settings, callArgs.aspect_ratio,
                                 callArgs.s, callArgs.t),
                   VecF(callArgs.settings.look_from))

\* a pinhole ray made with a disk point that is not the centre of the lens
C13_Witness_OffCentreDraw ==
    /\ RayReturned
    /\ callArgs.settings.aperture = 0
    /\ callRet.disk # <<Int2F(0), Int2F(0), Int2F(0)>>
    /\ callArgs.settings.look_from # <<0, 0, 0>>

\* C14: for every camera whose settings have t0 <= t1 (t0 = t1 included, as
\* in the default settings) constructing the camera succeeds, and every ray
\* get_ray returns has t0 <= time <= t1.
C14_TimeInShutterInterval ==
    (callArgs.settings.t0 <= callArgs.settings.t1) =>
        /\ callpc # "panicked"
        /\ RayReturned =>
              /\ FLe(Int2F(callArgs.settings.t0), callRet.ray.time)
              /\ FLe(callRet.ray.time, Int2F(callArgs.settings.t1))

-----------------------------------------------------------------------------
(* C15 *)

-----------------------------------------------------------------------------
(* C19, C20: the value of ray_color *)

ColorReturned == callpc = "done"

\* a1 * (a2 * (... * terminal)), elementwise
RECURSIVE PathProduct(_, _)
PathProduct(attenuations, c) ==
    IF attenuations = <<>> THEN c
    ELSE LET rest == PathProduct(Tail(attenuations), c)
         IN  [i \in 1..3 |-> FMul(Head(attenuations)[i], rest[i])]

\* the terminal colour the claim names: the sky gradient of the last ray if
\* that ray hits nothing, black if the material hit does not scatter or the
\* depth cap is reached
TerminalColour ==
    IF Len(callRet.attenuations) >= MAX_CHILD_RAY_DEPTH THEN Black
    ELSE IF ~EventAt(callArgs, Len(callRet.attenuations)).hit THEN SkyGradient(callRet.dir)
    ELSE Black

\* C19: the value ray_color returns for a primary ray is the elementwise
\* product of the attenuations of all scatter events along its path times a
\* terminal colour (the sky gradient of the last ray if it hits nothing, black
\* if the hit material does not scatter or the depth cap is reached), and each
\* recursive call is made on the scattered ray with depth + 1.
C19_ValueIsProductTimesTerminal ==
    /\ [](ColorReturned =>
            callRet.value = PathProduct(callRet.attenuations, TerminalColour))
    /\ [][(callpc = "scatter" /\ callpc' = "enter") =>
            /\ callRet'.depth = callRet.depth + 1
            /\ callRet'.dir = Scatter(callRet.rec.material, callRet.rec.leaves).dir
            /\ Len(callRet'.attenuations) = callRet'.depth]_vars

\* two scatter events and then the sky: a value that is neither the sky
\* colour nor black
C19_Witness_TwoBouncesThenSky ==
    /\ ColorReturned
    /\ callRet.terminal = "sky"
    /\ Len(callRet.attenuations) = 2
    /\ callRet.value # SkyGradient(callRet.dir)
    /\ callRet.value # Black

\* C20: Light::scatter returns None for every ray and hit and ray_color
\* never consults emitted(): a path that hits a Light ends there, and its
\* value is black whatever the light's emission colour.
C20_LightPathIsBlack ==
    /\ \A m \in Lights, l \in BOOLEAN : Scatter(m, l) = NoScatter
    /\ "emitted" \notin callRet.consulted
    /\ (ColorReturned /\ \E k \in DOMAIN callRet.hits : callRet.hits[k].kind = "Light") =>
          /\ callRet.hits[Len(callRet.hits)].kind = "Light"
          /\ \A k \in 1..(Len(callRet.hits) - 1) : callRet.hits[k].kind # "Light"
          /\ callRet.terminal = "no_scatter"
          /\ callRet.value = Black

\* a Light with a non-black emission, reached after a bounce
C20_Witness_LightAfterBounce ==
    /\ ColorReturned
    /\ Len(callRet.hits) >= 2
    /\ callRet.hits[Len(callRet.hits)].kind = "Light"
    /\ Emitted(callRet.hits[Len(callRet.hits)]) # Black
    /\ callRet.value = Black

-----------------------------------------------------------------------------
(* C24 *)

WorldHitDone == callpc = "done"

\* C24: World::hit returns no hit exactly when no primitive of the list
\* reports a hit, and otherwise a record reported by a primitive whose t is
\* the minimum over the reported hits; every reported hit has
\* t_min < t < t_max, so its t is a number and partial_cmp(..).unwrap() does
\* not fail, for scenes of any size, the empty scene included.
C24_WorldHitIsMinimum ==
    WorldHitDone =>
        LET n == Len(callArgs.hittables)
        IN  /\ ~callRet.rec.hit <=> (\A k \in 1..n : ~callRet.each[k].hit)
            /\ callRet.rec.hit =>
                  /\ \E k \in 1..n : callRet.each[k] = callRet.rec
                  /\ \A k \in 1..n :
                        callRet.each[k].hit => ~SurdLt(callRet.each[k].t, callRet.rec.t)
            /\ \A k \in 1..n :
                  callRet.each[k].hit =>
                      StrictlyInside(callRet.each[k].t, callArgs.t_min, callArgs.t_max)

\* three primitives are hit and the closest is neither first nor last
C24_Witness_MiddleIsClosest ==
    /\ WorldHitDone
    /\ Len(callArgs.hittables) = 3
    /\ \A k \in 1..3 : callRet.each[k].hit
    /\ SurdLt(callRet.each[2].t, callRet.each[1].t)
    /\ SurdLt(callRet.each[2].t, callRet.each[3].t)
    /\ callRet.rec = callRet.each[2]

-----------------------------------------------------------------------------
(* C22 *)

\* whether BvhNode::hit returns at its box test in a node above primitive h
RECURSIVE PrunedAbove(_, _)
PrunedAbove(node, h) ==
    IF ~IsNode(node) THEN FALSE
    ELSE \/ h \in Range(LeavesOf(node)) /\ Pruned(node, ray, tmin, tmax)
         \/ PrunedAbove(node.left, h)
         \/ PrunedAbove(node.right, h)

\* AABB::hit accepts every ray that meets the box, on every box of the tree
AabbAcceptsEveryMeetingRay ==
    (gpc \in {"box", "bvh", "done"} /\ IsNode(tree)) =>
        \A node \in NodesOf(tree) :
            RayMeetsBox(node.bounding_box, ray, tmin, tmax)
                => AABBHit(node.bounding_box, ray, tmin, tmax)

\* no pruning above a primitive that is hit, for spheres of radius >= 0 and
\* rays whose time is inside the window the tree was built for
NoPruningInsideWindow ==
    (gpc = "done" /\ IsNode(tree)
        /\ (\A k \in 1..Len(scene) : scene[k].radius >= 0)
        /\ window[1] <= ray.time /\ ray.time <= window[2]) =>
        \A k \in 1..Len(scene) : primRes[k].hit => ~PrunedAbove(tree, scene[k])

\* C22 (as claimed): AABB::hit returns true whenever some t with
\* t_min <= t <= t_max puts the ray point inside the box on all three axes,
\* so BvhNode::hit never prunes a subtree that contains a primitive the ray
\* hits within (t_min, t_max).
C22_NeverPrunesAHitPrimitive ==
    /\ AabbAcceptsEveryMeetingRay
    /\ (gpc = "done" /\ IsNode(tree)) =>
          \A k \in 1..Len(scene) : primRes[k].hit => ~PrunedAbove(tree, scene[k])

-----------------------------------------------------------------------------
(* C21 *)

MovingDone == callpc = "done"

\* the ray time is inside the window the box was asked for
InsideWindow == callArgs.t0 <= callArgs.ray.time /\ callArgs.ray.time <= callArgs.t1

\* coordinate i of the hit point ray.at(t), and its comparison with an f64
HitCoord(r, t, i) == XAdd(XOfF(Int2F(r.origin[i]), t.r), XScale(XOfSurd(t), r.dir[i]))
XCmpF(x, f)       == XSgn(XAdd(x, XNeg(XOfF(f, x.r))))

\* center(t) is center0 at the sphere's t0, center1 at its t1, and the
\* centre moves by equal steps in equal times
CenterIsLinear ==
    LET s == callArgs.s
    IN  /\ MovingCenter(s, s.t0) = VecF(s.center0)
        /\ MovingCenter(s, s.t1) = VecF(s.center1)
        /\ \A a \in RayTimes : (a + 2) \in RayTimes =>
              VAdd(MovingCenter(s, a), MovingCenter(s, a + 2))
                  = VMulF(MovingCenter(s, a + 1), Int2F(2))

\* the sphere of the given radius centred at center(ray.time) is inside the box
SphereInsideBox ==
    \A i \in 1..3 :
        /\ FLe(callRet.box.min[i], FSub(callRet.center[i], Int2F(Abs(callArgs.s.radius))))
        /\ FLe(FAdd(callRet.center[i], Int2F(Abs(callArgs.s.radius))), callRet.box.max[i])

\* the hit point reported is inside the box
HitPointInsideBox ==
    callRet.rec.hit =>
        \A i \in 1..3 :
            /\ XCmpF(HitCoord(callArgs.ray, callRet.rec.t, i), callRet.box.min[i]) >= 0
            /\ XCmpF(HitCoord(callArgs.ray, callRet.rec.t, i), callRet.box.max[i]) <= 0

\* the claim, for the spheres of radius >= 0
ConservativeForRadiusNotNegative ==
    (MovingDone /\ callArgs.s.radius >= 0) =>
        /\ CenterIsLinear
        /\ InsideWindow => (SphereInsideBox /\ HitPointInsideBox)

\* C21 (as claimed): MovingSphere::center(t) is center0 at t0, center1 at t1
\* and linear in between, and bounding_box(t0, t1) is conservative: for every
\* ray time tau with t0 <= tau <= t1 the sphere of the given radius centred at
\* center(tau) is inside the box, and so is every hit point MovingSphere::hit
\* reports for such a ray.
C21_MovingBoxIsConservative ==
    MovingDone =>
        /\ CenterIsLinear
        /\ InsideWindow => (SphereInsideBox /\ HitPointInsideBox)

-----------------------------------------------------------------------------
(* C23 *)

\* the step in which a call of ray_color passes the scattered ray on
ScatterStep == callpc = "scatter" /\ callpc' = "enter"

\* C23: along a traced path the ray time never changes: the ray a Lambertian,
\* Metal or Dielectric scatter returns has the time of the incoming ray and
\* its origin at the hit point, so world.hit is called at every bounce with
\* the time drawn for the primary camera ray.
C23_RayTimeNeverChanges ==
    /\ [][ScatterStep =>
            /\ callRet'.time = callRet.time
            /\ callRet'.origin = callRet.rec.point]_vars
    /\ [](/\ callRet.time = callArgs.time
          /\ \A k \in DOMAIN callRet.tested : callRet.tested[k] = callArgs.time)

\* a primary ray drawn after the shutter opened, scattered by each of the
\* three materials, the last bounce starting away from the camera
C23_Witness_ThreeBouncesLateRay ==
    /\ ColorReturned
    /\ callArgs.time # 0
    /\ {"Lambertian", "Metal", "Dielectric"} \subseteq
           {callRet.hits[k].kind : k \in 1..Len(callRet.attenuations)}
    /\ Len(callRet.tested) >= 3
    /\ callRet.origin # <<0, 0, 0>>

=============================================================================
